---- MODULE Spec2Model ----
(***************************************************************************)
(* A model of kinetics.Model (src/kinetics/Model.py) and of the two        *)
(* ping-pong rate laws of src/kinetics/Equations.py.                       *)
(*                                                                         *)
(* Python objects are modelled by value, and the two places where the      *)
(* class lets two attributes name one dictionary object are modelled by    *)
(* an alias flag:                                                          *)
(*   self.species    is either its own dictionary or self.species_defaults *)
(*   self.parameters is either its own dictionary or                       *)
(*                   self.parameter_defaults                               *)
(* A Python dict is a sequence of [k, v] entries in insertion order with   *)
(* no key twice.  Concentrations, rates and parameters are integers; the   *)
(* rate laws of Equations.py are computed over exact fractions.            *)
(***************************************************************************)
EXTENDS Integers, Sequences, FiniteSets, TLC

VARIABLES
    self,        \* the Model object: its list of reactions and its attributes
    lastOp,      \* name of the most recent call
    lastArg,     \* argument of the most recent call, as it was when the call was made
    ret,         \* what the most recent call returned or raised
    call,        \* the argument objects of a direct call of a module-level function
    hist         \* bookkeeping about earlier calls (read by the properties only)

vars == <<self, lastOp, lastArg, ret, call, hist>>

----------------------------------------------------------------------------
(* Bounds of the model checking *)

\* largest concentration given to set_species_defaults / update_species / a rate law
MaxConc == 2
\* largest entry of a state vector y given to deriv / calculate_yprime
MaxY == 1
\* largest parameter value given to set_parameter_defaults / update_parameters
MaxParam == 1
\* largest number of reactions appended to the model
MaxReactions == 2
\* number of integration steps taken by the integrator in run_model
MaxSteps == 2
\* longest sequence of calls made on one Model object under Spec
MaxCalls == 5
\* largest rate given to calculate_yprime
MaxRate == 1
\* largest kinetic constant given to a rate law
MaxConstant == 2

----------------------------------------------------------------------------
(* Python values *)

\* a number, as a species value
Num(x) == [list |-> FALSE, items |-> <<x>>]
\* a list [x, e] (value with error), as a species value
ValueWithError(x, e) == [list |-> TRUE, items |-> <<x, e>>]

EmptyDict == <<>>

Entry(key, value) == [k |-> key, v |-> value]

\* list(d.keys())
Keys(d) == [i \in 1..Len(d) |-> d[i].k]

KeySet(d) == {d[i].k : i \in 1..Len(d)}

\* key in d
HasKey(d, key) == \E i \in 1..Len(d) : d[i].k = key

\* d[key]
Get(d, key) == d[CHOOSE i \in 1..Len(d) : d[i].k = key].v

\* d[key] = value: an existing key keeps its position, a new key goes last
dict_setitem(d, key, value) ==
    IF HasKey(d, key)
    THEN [i \in 1..Len(d) |-> IF d[i].k = key THEN Entry(key, value) ELSE d[i]]
    ELSE Append(d, Entry(key, value))

\* d.update(other)
RECURSIVE dict_update(_, _)
dict_update(d, other) ==
    IF other = <<>> THEN d
    ELSE dict_update(dict_setitem(d, Head(other).k, Head(other).v), Tail(other))

\* d1 == d2 in Python: same keys with the same values, in any order
DictEq(d1, d2) ==
    /\ KeySet(d1) = KeySet(d2)
    /\ \A key \in KeySet(d1) : Get(d1, key) = Get(d2, key)

\* names.index(name), counted from 1; 0 stands for the ValueError of a missing name
list_index(names, name) ==
    IF \E i \in 1..Len(names) : names[i] = name
    THEN CHOOSE i \in 1..Len(names) :
            /\ names[i] = name
            /\ \A j \in 1..(i - 1) : names[j] # name
    ELSE 0

RECURSIVE Sum(_)
Sum(v) == IF v = <<>> THEN 0 ELSE Head(v) + Sum(Tail(v))

\* np.zeros(n)
zeros(n) == [i \in 1..n |-> 0]

\* what a call returns: err is "none" or the exception raised, v the value
Returned(value) == [err |-> "none", v |-> value]
Raised(exception) == [err |-> exception, v |-> <<>>]
None == Returned(<<>>)

----------------------------------------------------------------------------
(* Module-level functions of Model.py *)

get_species_positions_keeping_lists(species) ==
    [species_names |-> Keys(species),
     species_starting_values |-> [i \in 1..Len(species) |-> species[i].v]]

\* get_species_positions: the ordered names, and the ordered starting values
\* (the first element of a value that is a list)
get_species_positions(species) ==
    [species_names |-> Keys(species),
     species_starting_values |->
        [i \in 1..Len(species) |->
            IF species[i].v.list THEN Num(species[i].v.items[1]) ELSE species[i].v]]

\* the loop "for name in names: y_prime[substrate_names.index(name)] += sign * rate"
RECURSIVE apply_rate(_, _, _, _)
apply_rate(y_prime, amount, names, substrate_names) ==
    IF y_prime.err # "none" \/ names = <<>> THEN y_prime
    ELSE LET i == list_index(substrate_names, Head(names))
         IN  IF i = 0 THEN Raised("ValueError")
             ELSE IF i > Len(y_prime.v) THEN Raised("IndexError")
             ELSE apply_rate(Returned([y_prime.v EXCEPT ![i] = @ + amount]),
                             amount, Tail(names), substrate_names)

calculate_yprime_from_y(y, rate, substrates, products, substrate_names) ==
    LET minus == apply_rate(Returned(y), 0 - rate, substrates, substrate_names)
        plus  == apply_rate(minus, rate, products, substrate_names)
    IN  [y_prime |-> plus,
         y |-> IF plus.err = "none" THEN plus.v
               ELSE IF minus.err = "none" THEN minus.v ELSE y,
         substrate_names |-> substrate_names]

calculate_yprime_adding_substrates(y, rate, substrates, products, substrate_names) ==
    LET minus == apply_rate(Returned(zeros(Len(y))), rate, substrates, substrate_names)
    IN  [y_prime |-> apply_rate(minus, rate, products, substrate_names),
         y |-> y, substrate_names |-> substrate_names]

\* calculate_yprime: the returned (or raised) y_prime, with the argument objects
\* y and substrate_names as the call leaves them
calculate_yprime(y, rate, substrates, products, substrate_names) ==
    LET minus == apply_rate(Returned(zeros(Len(y))), 0 - rate, substrates, substrate_names)
    IN  [y_prime |-> apply_rate(minus, rate, products, substrate_names),
         y |-> y, substrate_names |-> substrate_names]

----------------------------------------------------------------------------
(* Reactions.  The reaction classes are written by the user of the package; *)
(* a reaction here declares substrates, products, parameter_defaults and    *)
(* parameter_bounds, and its reaction(y, species_names, parameters) works   *)
(* out a mass-action rate and hands it to calculate_yprime.                 *)

Reaction(substrates, products, rate_constant, parameter_defaults, parameter_bounds) ==
    [substrates |-> substrates, products |-> products, rate_constant |-> rate_constant,
     parameter_defaults |-> parameter_defaults, parameter_bounds |-> parameter_bounds]

\* A -> B, rate k1 * [A]
A_to_B == Reaction(<<"A">>, <<"B">>, "k1",
                   <<Entry("k1", 1)>>, <<Entry("k1", <<0, 2>>)>>)
\* B -> C, rate k2 * [B]; it declares k1 as well, with another default
B_to_C == Reaction(<<"B">>, <<"C">>, "k2",
                   <<Entry("k1", 2), Entry("k2", 1)>>, <<Entry("k2", <<0, 3>>)>>)
\* A + B -> C, rate k3 * [A] * [B]
A_B_to_C == Reaction(<<"A", "B">>, <<"C">>, "k3",
                     <<Entry("k3", 1)>>, <<Entry("k3", <<0, 1>>)>>)

Reactions == {A_to_B, B_to_C, A_B_to_C}

Species == {"A", "B", "C"}

\* the species a reaction names
SpeciesOf(r) == {r.substrates[i] : i \in 1..Len(r.substrates)}
                    \cup {r.products[i] : i \in 1..Len(r.products)}

\* product of the concentrations of the named species
RECURSIVE concentrations(_, _, _)
concentrations(names, y, species_names) ==
    IF names = <<>> THEN 1
    ELSE y[list_index(species_names, Head(names))]
            * concentrations(Tail(names), y, species_names)

\* reaction_class.reaction(y, species_names, parameters)
reaction(r, y, species_names, parameters) ==
    IF ~HasKey(parameters, r.rate_constant) THEN Raised("KeyError")
    ELSE IF \E i \in 1..Len(r.substrates) : list_index(species_names, r.substrates[i]) = 0
         THEN Raised("ValueError")
    ELSE IF \E i \in 1..Len(r.substrates) :
                list_index(species_names, r.substrates[i]) > Len(y)
         THEN Raised("IndexError")
    ELSE calculate_yprime(y,
                          Get(parameters, r.rate_constant)
                              * concentrations(r.substrates, y, species_names),
                          r.substrates, r.products, species_names).y_prime

----------------------------------------------------------------------------
(* class Model *)

\* Model.__init__
NewModel ==
    [reactions |-> <<>>,
     species_defaults |-> EmptyDict,
     species_own |-> EmptyDict,
     species_is_defaults |-> FALSE,
     species_names |-> <<>>,
     species_starting_values |-> <<>>,
     parameter_defaults |-> EmptyDict,
     parameter_bounds |-> EmptyDict,
     parameters_own |-> EmptyDict,
     parameters_is_defaults |-> FALSE]

\* self.species: the dictionary the attribute refers to
species(s) == IF s.species_is_defaults THEN s.species_defaults ELSE s.species_own

\* self.parameters: the dictionary the attribute refers to
parameters(s) ==
    IF s.parameters_is_defaults THEN s.parameter_defaults ELSE s.parameters_own

\* a change made in place to the dictionary self.species refers to
species_object_becomes(s, d) ==
    IF s.species_is_defaults THEN [s EXCEPT !.species_defaults = d]
    ELSE [s EXCEPT !.species_own = d]

\* a change made in place to the dictionary self.parameters refers to
parameters_object_becomes(s, d) ==
    IF s.parameters_is_defaults THEN [s EXCEPT !.parameter_defaults = d]
    ELSE [s EXCEPT !.parameters_own = d]

\* list.append(self, reaction_class)
append(s, r) == [s EXCEPT !.reactions = Append(@, r)]

\* self.parameters is the caller's dictionary, self.parameter_defaults a deep copy
set_parameter_defaults(s, p) ==
    [s EXCEPT !.parameters_own = p,
              !.parameters_is_defaults = FALSE,
              !.parameter_defaults = p]

update_parameters(s, p) ==
    parameters_object_becomes(s, dict_update(parameters(s), p))

\* the loop of set_parameters_from_reactions
RECURSIVE fold_reaction_parameters(_, _)
fold_reaction_parameters(s, rs) ==
    IF rs = <<>> THEN s
    ELSE fold_reaction_parameters(
            [s EXCEPT !.parameters_own = dict_update(@, Head(rs).parameter_defaults),
                      !.parameter_defaults = dict_update(@, Head(rs).parameter_defaults),
                      !.parameter_bounds = dict_update(@, Head(rs).parameter_bounds)],
            Tail(rs))

set_parameters_from_reactions_keeping_parameters(s) ==
    fold_reaction_parameters(
        [s EXCEPT !.parameters_own = parameters(s),
                  !.parameters_is_defaults = FALSE,
                  !.parameter_defaults = EmptyDict,
                  !.parameter_bounds = EmptyDict],
        s.reactions)

set_parameters_from_reactions(s) ==
    fold_reaction_parameters(
        [s EXCEPT !.parameters_own = EmptyDict,
                  !.parameters_is_defaults = FALSE,
                  !.parameter_defaults = EmptyDict,
                  !.parameter_bounds = EmptyDict],
        s.reactions)

update_species_extending_lists(s, species_dict) ==
    LET s1 == species_object_becomes(s, dict_update(species(s), species_dict))
        positions == get_species_positions(species(s1))
    IN  [s1 EXCEPT !.species_names = @ \o positions.species_names,
                   !.species_starting_values = @ \o positions.species_starting_values]

update_species(s, species_dict) ==
    LET s1 == species_object_becomes(s, dict_update(species(s), species_dict))
        positions == get_species_positions(species(s1))
    IN  [s1 EXCEPT !.species_names = positions.species_names,
                   !.species_starting_values = positions.species_starting_values]

\* self.species_defaults is the caller's dictionary, self.species a deep copy
set_species_defaults(s, species_defaults) ==
    update_species([s EXCEPT !.species_defaults = species_defaults,
                             !.species_own = species_defaults,
                             !.species_is_defaults = FALSE],
                   species_defaults)

\* the loop of deriv: yprime += reaction_class.reaction(...)
RECURSIVE add_reactions(_, _, _, _)
add_reactions(yprime, rs, s, y) ==
    IF rs = <<>> THEN Returned(yprime)
    ELSE LET c == reaction(Head(rs), y, s.species_names, parameters(s))
         IN  IF c.err # "none" THEN c
             ELSE add_reactions([i \in 1..Len(yprime) |-> yprime[i] + c.v[i]],
                                Tail(rs), s, y)

RECURSIVE keep_last_reaction(_, _, _, _)
keep_last_reaction(yprime, rs, s, y) ==
    IF rs = <<>> THEN Returned(yprime)
    ELSE LET c == reaction(Head(rs), y, s.species_names, parameters(s))
         IN  IF c.err # "none" THEN c
             ELSE keep_last_reaction(c.v, Tail(rs), s, y)

deriv_keeping_last_reaction(s, y) ==
    [yprime |-> keep_last_reaction(zeros(Len(y)), s.reactions, s, y), self |-> s]

\* deriv(y, t): what it returns or raises, and the model as the call leaves it
deriv(s, y) ==
    [yprime |-> add_reactions(zeros(Len(y)), s.reactions, s, y), self |-> s]

\* np.array(self.species_starting_values)
array(values) == [i \in 1..Len(values) |-> values[i].items[1]]

\* integrate.odeint(self.deriv, y0, self.time): the integrator is taken to be
\* forward Euler with unit step, the trajectory starting at y0; an exception
\* raised by deriv ends the integration
RECURSIVE odeint(_, _, _)
odeint(s, trajectory, steps) ==
    IF steps = 0 THEN Returned(trajectory)
    ELSE LET y == trajectory[Len(trajectory)]
             d == deriv(s, y).yprime
         IN  IF d.err # "none" THEN d
             ELSE odeint(s, Append(trajectory, [i \in 1..Len(y) |-> y[i] + d.v[i]]),
                         steps - 1)

run_model(s) == odeint(s, <<array(s.species_starting_values)>>, MaxSteps)

\* self.species and self.parameters become the defaults dictionaries themselves
reset_model(s) ==
    LET positions == get_species_positions(s.species_defaults)
    IN  [s EXCEPT !.species_is_defaults = TRUE,
                  !.species_own = EmptyDict,
                  !.species_names = positions.species_names,
                  !.species_starting_values = positions.species_starting_values,
                  !.parameters_is_defaults = TRUE,
                  !.parameters_own = EmptyDict]

\* the attributes a run reads
RunTimeState(s) ==
    [species |-> species(s),
     species_names |-> s.species_names,
     species_starting_values |-> s.species_starting_values,
     parameters |-> parameters(s)]

\* the registries set-up fills
Registries(s) ==
    [parameters |-> parameters(s),
     parameter_defaults |-> s.parameter_defaults,
     parameter_bounds |-> s.parameter_bounds,
     species |-> species(s),
     species_names |-> s.species_names,
     species_starting_values |-> s.species_starting_values]

----------------------------------------------------------------------------
(* What the caller passes *)

SpeciesDefaultsInputs ==
    {<<Entry("A", Num(x)), Entry("B", Num(0)), Entry("C", Num(0))>> : x \in 1..MaxConc}
        \cup {<<Entry("B", Num(1)), Entry("A", ValueWithError(x, 1))>> : x \in 1..MaxConc}

UpdateSpeciesInputs ==
    {<<Entry(name, Num(x))>> : name \in {"A", "C"}, x \in 0..MaxConc}

ParameterInputs ==
    {<<Entry("k2", x), Entry("k1", x)>> : x \in 0..MaxParam}

UpdateParametersInputs ==
    {<<Entry(name, x)>> : name \in {"k1", "k3"}, x \in 0..MaxParam}

StateVectors(n) == [1..n -> 0..MaxY]

----------------------------------------------------------------------------
(* The calls made on a Model object *)

\* bookkeeping: nothing has been called yet
NoHistory ==
    [base |-> RunTimeState(NewModel),
     species_set |-> FALSE,
     parameters_set |-> FALSE,
     setup_done |-> FALSE,
     setup_reactions |-> <<>>,
     parameters_settled |-> FALSE,
     species_settled |-> <<>>,
     repeated |-> FALSE,
     parameters_repeated |-> FALSE,
     species_repeated |-> FALSE,
     changed |-> FALSE,
     registries_changed |-> FALSE,
     indices_kept |-> TRUE,
     parameters_dropped |-> FALSE,
     budget |-> 0]

\* the state after Model(), with the number of calls the caller goes on to make
\* (0: any number)
ModelInit(budget) ==
    /\ self = NewModel
    /\ lastOp = "__init__"
    /\ lastArg = <<>>
    /\ ret = None
    /\ hist = [NoHistory EXCEPT !.budget = budget]

\* a call op(arg) that leaves the model as s, returns r, and the bookkeeping as h
Called(op, arg, s, r, h) ==
    /\ self' = s
    /\ lastOp' = op
    /\ lastArg' = arg
    /\ ret' = r
    /\ hist' = [h EXCEPT
            !.changed = (self' # self),
            !.registries_changed = (Registries(self') # Registries(self)),
            !.indices_kept =
                \A i \in 1..Len(self.species_names) :
                    /\ i <= Len(self'.species_names)
                    /\ self'.species_names[i] = self.species_names[i],
            !.parameters_dropped =
                (KeySet(parameters(self)) \ KeySet(parameters(self')) # {}),
            !.budget = IF @ > 0 THEN @ - 1 ELSE 0]
    /\ UNCHANGED call

\* bookkeeping after a call that is not part of set-up
Unsettled == [hist EXCEPT !.parameters_settled = FALSE,
                          !.species_settled = <<>>,
                          !.repeated = FALSE,
                          !.parameters_repeated = FALSE,
                          !.species_repeated = FALSE]

\* a reaction object is appended to the model once
Call_append ==
    /\ Len(self.reactions) < MaxReactions
    /\ \E r \in Reactions :
        /\ \A i \in 1..Len(self.reactions) : self.reactions[i] # r
        /\ Called("append", r, append(self, r), None, Unsettled)

Call_set_parameter_defaults ==
    \E p \in ParameterInputs :
        LET s == set_parameter_defaults(self, p)
        IN  Called("set_parameter_defaults", p, s, None,
                   [Unsettled EXCEPT !.parameters_set = TRUE,
                                     !.base.parameters = parameters(s)])

Call_update_parameters ==
    \E p \in UpdateParametersInputs :
        Called("update_parameters", p, update_parameters(self, p), None, Unsettled)

Call_set_parameters_from_reactions ==
    LET s == set_parameters_from_reactions(self)
    IN  Called("set_parameters_from_reactions", <<>>, s, None,
               [hist EXCEPT !.parameters_set = TRUE,
                            !.base.parameters = parameters(s),
                            !.setup_done = TRUE,
                            !.setup_reactions = self.reactions,
                            !.parameters_settled = TRUE,
                            !.repeated = hist.parameters_settled,
                            !.parameters_repeated = (@ \/ hist.parameters_settled)])

Call_set_species_defaults ==
    \E d \in SpeciesDefaultsInputs :
        LET s == set_species_defaults(self, d)
        IN  Called("set_species_defaults", d, s, None,
                   [hist EXCEPT !.species_set = TRUE,
                                !.base.species = species(s),
                                !.base.species_names = s.species_names,
                                !.base.species_starting_values = s.species_starting_values,
                                !.species_settled = <<d>>,
                                !.repeated = (hist.species_settled = <<d>>),
                                !.species_repeated = (hist.species_settled = <<d>>)])

Call_update_species ==
    \E d \in UpdateSpeciesInputs :
        Called("update_species", d, update_species(self, d), None, Unsettled)

Call_deriv ==
    \E y \in StateVectors(Len(self.species_names)) :
        LET d == deriv(self, y)
        IN  Called("deriv", y, d.self, d.yprime, Unsettled)

Call_run_model ==
    Called("run_model", <<>>, self, run_model(self), Unsettled)

Call_reset_model ==
    Called("reset_model", <<>>, reset_model(self), None, Unsettled)

Init ==
    /\ ModelInit(MaxCalls)
    /\ call = <<>>

InitUnlimited ==
    /\ ModelInit(0)
    /\ call = <<>>

\* any call on the model
AnyCall ==
    \/ Call_append
    \/ Call_set_parameter_defaults
    \/ Call_update_parameters
    \/ Call_set_parameters_from_reactions
    \/ Call_set_species_defaults
    \/ Call_update_species
    \/ Call_deriv
    \/ Call_run_model
    \/ Call_reset_model

\* every sequence of at most MaxCalls calls on a new Model
Next == hist.budget > 0 /\ AnyCall

Spec == Init /\ [][Next]_vars

\* every sequence of calls that set, update and reset the species
NextSpecies ==
    \/ Call_set_species_defaults
    \/ Call_update_species
    \/ Call_reset_model

SpecSpecies == InitUnlimited /\ [][NextSpecies]_vars

\* every sequence of calls that append reactions and set, update and reset the parameters
NextParameters ==
    \/ Call_append
    \/ Call_set_parameter_defaults
    \/ Call_update_parameters
    \/ Call_set_parameters_from_reactions
    \/ Call_reset_model

SpecParameters == InitUnlimited /\ [][NextParameters]_vars

\* every sequence of calls that build a model, set it up and run it
NextRun ==
    \/ Call_append
    \/ Call_set_species_defaults
    \/ Call_set_parameters_from_reactions
    \/ Call_deriv
    \/ Call_run_model

SpecRun == InitUnlimited /\ [][NextRun]_vars

\* every sequence of calls that build a model, set it up and reset it
NextSetup ==
    \/ Call_append
    \/ Call_set_parameter_defaults
    \/ Call_set_parameters_from_reactions
    \/ Call_set_species_defaults
    \/ Call_reset_model

SpecSetup == InitUnlimited /\ [][NextSetup]_vars

----------------------------------------------------------------------------
(* Properties of the Model object *)

\* C1: once set_species_defaults and set_parameters_from_reactions (or
\* set_parameter_defaults) have established the baseline, the run-time state right
\* after every reset_model (species, species_names, species_starting_values,
\* parameters) is the state the baseline established, on every cycle.
C1_ResetRestoresBaseline ==
    (lastOp = "reset_model" /\ hist.species_set /\ hist.parameters_set) =>
        /\ DictEq(species(self), hist.base.species)
        /\ self.species_names = hist.base.species_names
        /\ self.species_starting_values = hist.base.species_starting_values
        /\ DictEq(parameters(self), hist.base.parameters)

\* C3: a set-up call (set_parameters_from_reactions, or set_species_defaults with the
\* same dictionary) that repeats set-up, with nothing but set-up calls in between,
\* leaves the six registries as the first set-up left them.
C3_SetupIdempotent ==
    (hist.repeated /\ lastOp \in {"set_parameters_from_reactions", "set_species_defaults"})
        => ~hist.registries_changed

\* set_parameters_from_reactions and set_species_defaults were called, then both again
C3_SetupRepeated ==
    /\ lastOp = "set_species_defaults"
    /\ hist.repeated
    /\ hist.parameters_repeated
    /\ hist.species_repeated
    /\ Len(self.reactions) = 2
    /\ Len(parameters(self)) >= 2
    /\ Len(self.species_names) = 3

\* C6: whenever run_model or deriv executes after a set_parameters_from_reactions,
\* the collection of reactions is the one that call folded into the parameters.
C6_RunEvaluatesOnlySetUpReactions ==
    (lastOp \in {"run_model", "deriv"} /\ hist.setup_done) =>
        self.reactions = hist.setup_reactions

\* C7: when a set-up model is run, every species named by a reaction is in the
\* species registry and in species_names, and no species lookup fails in the run.
C7_ReactionSpeciesRegistered ==
    (lastOp = "run_model" /\ hist.species_set /\ hist.setup_done) =>
        /\ \A i \in 1..Len(self.reactions) :
                \A name \in SpeciesOf(self.reactions[i]) :
                    /\ HasKey(species(self), name)
                    /\ list_index(self.species_names, name) # 0
        /\ ret.err # "ValueError"

\* species_names lists the keys of the species registry in insertion order, once each,
\* and species_starting_values has the same length
NamesFollowRegistry ==
    /\ Len(self.species_names) = Len(self.species_starting_values)
    /\ self.species_names = Keys(species(self))
    /\ \A i, j \in 1..Len(self.species_names) :
            i # j => self.species_names[i] # self.species_names[j]

\* C9 as stated: in every state reached by set_species_defaults, update_species and
\* reset_model, species_names lists the registry's keys in insertion order without
\* repeats, species_starting_values[i] is the registry value of species_names[i], and
\* update_species leaves every registered species at its index.
C9_StartingValuesAreRegistryValues ==
    /\ NamesFollowRegistry
    /\ \A i \in 1..Len(self.species_names) :
            self.species_starting_values[i] = Get(species(self), self.species_names[i])
    /\ lastOp = "update_species" => hist.indices_kept

\* C9 as amended: the same, with species_starting_values[i] the registry value of
\* species_names[i], or the first element of that value when it is a list.
C9_StartingValuesFromRegistry ==
    /\ NamesFollowRegistry
    /\ \A i \in 1..Len(self.species_names) :
            LET value == Get(species(self), self.species_names[i])
            IN  self.species_starting_values[i] =
                    IF value.list THEN Num(value.items[1]) ELSE value
    /\ lastOp = "update_species" => hist.indices_kept

\* update_species has added a species at the end of a registry, shared with the
\* defaults after a reset, that holds a value given as a list
C9_SpeciesAddedAfterReset ==
    /\ lastOp = "update_species"
    /\ self.species_is_defaults
    /\ ~HasKey(hist.base.species, lastArg[1].k)
    /\ self.species_names[Len(self.species_names)] = lastArg[1].k
    /\ Len(self.species_names) = 3
    /\ \E i \in 1..Len(self.species_names) : species(self)[i].v.list

\* the value the last reaction in append order that declares the key gives it
LastDeclared(rs, key, values(_)) ==
    LET last == CHOOSE i \in 1..Len(rs) :
                    /\ HasKey(values(rs[i]), key)
                    /\ \A j \in (i + 1)..Len(rs) : ~HasKey(values(rs[j]), key)
    IN  Get(values(rs[last]), key)

DeclaredDefaults(r) == r.parameter_defaults
DeclaredBounds(r) == r.parameter_bounds

\* the dictionary holds the keys the reactions declare, each with the value of the last
\* reaction that declares it
HoldsDeclared(d, rs, values(_)) ==
    /\ KeySet(d) = UNION {KeySet(values(rs[i])) : i \in 1..Len(rs)}
    /\ \A key \in KeySet(d) : Get(d, key) = LastDeclared(rs, key, values)

\* C10: after set_parameters_from_reactions the keys of parameters, parameter_defaults
\* and parameter_bounds are those the appended reactions declare, each with the value
\* of the last declaring reaction; parameters and parameter_defaults are equal; nothing
\* set_parameter_defaults or update_parameters had placed remains.
C10_ParametersFromReactions ==
    lastOp = "set_parameters_from_reactions" =>
        /\ HoldsDeclared(parameters(self), self.reactions, DeclaredDefaults)
        /\ HoldsDeclared(self.parameter_defaults, self.reactions, DeclaredDefaults)
        /\ HoldsDeclared(self.parameter_bounds, self.reactions, DeclaredBounds)
        /\ DictEq(parameters(self), self.parameter_defaults)

\* set_parameters_from_reactions merged two reactions that both declare k1, and dropped
\* a key that had been placed in parameters before
C10_MergedAndDiscarded ==
    /\ lastOp = "set_parameters_from_reactions"
    /\ self.reactions = <<A_to_B, B_to_C>>
    /\ Get(parameters(self), "k1") = 2
    /\ hist.parameters_dropped

\* the sum over the first n reactions of entry i of what each returns for y
RECURSIVE ContributionSum(_, _, _, _)
ContributionSum(s, y, i, n) ==
    IF n = 0 THEN 0
    ELSE ContributionSum(s, y, i, n - 1)
            + reaction(s.reactions[n], y, s.species_names, parameters(s)).v[i]

\* every reaction returns a vector for y
AllContribute(s, y) ==
    \A n \in 1..Len(s.reactions) :
        reaction(s.reactions[n], y, s.species_names, parameters(s)).err = "none"

\* C8: deriv(y, t) returns a vector as long as y that is, entry by entry, the sum of
\* what every reaction of the model returns for y, each counted once (all zero for a
\* model without reactions); it raises only if a reaction does; and it leaves the
\* model as it was.
C8_DerivSumsContributions ==
    lastOp = "deriv" =>
        /\ ~hist.changed
        /\ (ret.err = "none") = AllContribute(self, lastArg)
        /\ ret.err = "none" =>
            /\ Len(ret.v) = Len(lastArg)
            /\ \A i \in 1..Len(lastArg) :
                    ret.v[i] = ContributionSum(self, lastArg, i, Len(self.reactions))
            /\ self.reactions = <<>> => ret.v = zeros(Len(lastArg))

\* deriv added up two reactions that both have a non-zero rate
C8_TwoReactionsSummed ==
    /\ lastOp = "deriv"
    /\ ret.err = "none"
    /\ self.reactions = <<A_to_B, A_B_to_C>>
    /\ \A n \in 1..2 :
            \E i \in 1..Len(lastArg) :
                reaction(self.reactions[n], lastArg, self.species_names,
                         parameters(self)).v[i] # 0

\* every reaction of the model has exactly one substrate and one product
OneToOne(s) ==
    \A n \in 1..Len(s.reactions) :
        Len(s.reactions[n].substrates) = 1 /\ Len(s.reactions[n].products) = 1

\* C5: in a model whose reactions each have one substrate and one product, the entries
\* of the vector deriv returns sum to zero, and every point of the trajectory run_model
\* builds from deriv has the same total concentration.
C5_MassConserved ==
    (OneToOne(self) /\ ret.err = "none") =>
        /\ lastOp = "deriv" => Sum(ret.v) = 0
        /\ lastOp = "run_model" =>
                \A k \in 1..Len(ret.v) : Sum(ret.v[k]) = Sum(ret.v[1])

\* run_model integrated the chain A -> B, B -> C and the concentrations moved
C5_ChainIntegrated ==
    /\ lastOp = "run_model"
    /\ ret.err = "none"
    /\ self.reactions = <<A_to_B, B_to_C>>
    /\ Len(ret.v) = MaxSteps + 1
    /\ ret.v[2] # ret.v[1]
    /\ ret.v[3] # ret.v[2]

----------------------------------------------------------------------------
(* calculate_yprime called directly *)

\* lists of at most two species names, repeats included
NameLists == {<<>>} \cup {<<n>> : n \in Species} \cup {<<n, m>> : n, m \in Species}

\* orderings of one, two or three species
Orderings ==
    {names \in UNION {[1..n -> Species] : n \in 1..3} :
        \A i, j \in 1..Len(names) : i # j => names[i] # names[j]}

Rates == (0 - 1)..MaxRate

\* a state vector y with the ordering of the species it holds
CalculateYprimeCalls ==
    UNION {[y : StateVectors(Len(names)), rate : Rates, substrates : NameLists,
            products : NameLists, substrate_names : {names}] : names \in Orderings}

InitYprime ==
    /\ ModelInit(0)
    /\ call \in CalculateYprimeCalls

Call_calculate_yprime ==
    /\ lastOp = "__init__"
    /\ LET r == calculate_yprime(call.y, call.rate, call.substrates, call.products,
                                 call.substrate_names)
       IN  /\ ret' = r.y_prime
           /\ call' = [call EXCEPT !.y = r.y, !.substrate_names = r.substrate_names]
    /\ lastOp' = "calculate_yprime"
    /\ lastArg' = call
    /\ UNCHANGED <<self, hist>>

SpecYprime == InitYprime /\ [][Call_calculate_yprime]_vars

Range(names) == {names[i] : i \in 1..Len(names)}

NoRepeats(names) == \A i, j \in 1..Len(names) : i # j => names[i] # names[j]

\* C2: for substrates and products without repeats and with no name in common, all of
\* them in the ordering, calculate_yprime returns a new vector as long as y with -rate
\* at the index of every substrate, +rate at the index of every product and 0
\* elsewhere, and leaves y and the ordering as they were.
C2_CalculateYprime ==
    (/\ lastOp = "calculate_yprime"
     /\ Range(lastArg.substrates) \cup Range(lastArg.products)
            \subseteq Range(lastArg.substrate_names)
     /\ NoRepeats(lastArg.substrates \o lastArg.products)) =>
        /\ ret.err = "none"
        /\ Len(ret.v) = Len(lastArg.y)
        /\ \A i \in 1..Len(lastArg.y) :
                ret.v[i] =
                    IF lastArg.substrate_names[i] \in Range(lastArg.substrates)
                    THEN 0 - lastArg.rate
                    ELSE IF lastArg.substrate_names[i] \in Range(lastArg.products)
                    THEN lastArg.rate
                    ELSE 0
        /\ call.y = lastArg.y
        /\ call.substrate_names = lastArg.substrate_names

\* calculate_yprime was given two substrates, a product, a third species that takes no
\* part, a non-zero rate and a y that is not all zero
C2_TwoSubstratesOneProduct ==
    /\ lastOp = "calculate_yprime"
    /\ lastArg.substrates = <<"C", "A">>
    /\ lastArg.products = <<"B">>
    /\ lastArg.substrate_names = <<"B", "A", "C">>
    /\ lastArg.rate = 1
    /\ lastArg.y = <<1, 0, 1>>
    /\ ret = Returned(<<1, 0 - 1, 0 - 1>>)

----------------------------------------------------------------------------
(* Equations.py.  A Python number is an exact fraction n / d; d = 0 stands *)
(* for a ZeroDivisionError raised on the way.                              *)

Q(n) == [n |-> n, d |-> 1]
DivisionByZero == [n |-> 0, d |-> 0]
Defined(x) == x.d # 0

Abs(n) == IF n < 0 THEN 0 - n ELSE n

RECURSIVE GCD(_, _)
GCD(m, n) == IF n = 0 THEN m ELSE GCD(n, m % n)

\* n / d in lowest terms, d > 0
Fraction(n, d) ==
    LET g == GCD(Abs(n), Abs(d))
    IN  [n |-> IF d < 0 THEN 0 - (n \div g) ELSE n \div g, d |-> Abs(d) \div g]

\* x + y
QAdd(x, y) == IF Defined(x) /\ Defined(y)
              THEN Fraction(x.n * y.d + y.n * x.d, x.d * y.d) ELSE DivisionByZero
\* x - y
QSub(x, y) == IF Defined(x) /\ Defined(y)
              THEN Fraction(x.n * y.d - y.n * x.d, x.d * y.d) ELSE DivisionByZero
\* x * y
QMul(x, y) == IF Defined(x) /\ Defined(y)
              THEN Fraction(x.n * y.n, x.d * y.d) ELSE DivisionByZero
\* x / y
QDiv(x, y) == IF Defined(x) /\ Defined(y) /\ y.n # 0
              THEN Fraction(x.n * y.d, x.d * y.n) ELSE DivisionByZero

IsZero(x) == Defined(x) /\ x.n = 0
IsNegative(x) == Defined(x) /\ x.n < 0

\* what a rate law returns or raises
Rate(x) == IF Defined(x) THEN Returned(x) ELSE Raised("ZeroDivisionError")

two_substrate_pingpong_irr_unguarded(kcat, kma, kmb, enz, a, b) ==
    Rate(QDiv(Q(kcat * enz * a * b), Q((kmb * a) + (kma * b) + (a * b))))

two_substrate_pingpong_irr(kcat, kma, kmb, enz, a, b) ==
    IF a = 0 \/ b = 0 THEN Rate(Q(0))
    ELSE Rate(QDiv(Q(kcat * enz * a * b), Q((kmb * a) + (kma * b) + (a * b))))

\* "/ kip*kmq" divides by kip and multiplies by kmq, as Python reads it
two_substrate_substituted_enzyme_rev(kcatf, kma, kmb, kia, kib, kcatr, kmp, kmq, kip, kiq, enz, a, b, p, q) ==
    LET num == QSub(QDiv(Q(kcatf * enz * a * b), Q(kia * kmb)),
                    QMul(QDiv(Q(kcatr * enz * p * q), Q(kip)), Q(kmq)))
        den == QAdd(QAdd(QAdd(QAdd(QAdd(QAdd(QAdd(
                    QDiv(Q(a), Q(kia)),
                    QDiv(Q(kma * b), Q(kia * kmb))),
                    QDiv(Q(p), Q(kip))),
                    QDiv(Q(kmp * q), Q(kip * kmq))),
                    QDiv(Q(a * b), Q(kia * kmb))),
                    QDiv(Q(a * p), Q(kia * kip))),
                    QDiv(Q(kma * b * q), Q(kia * kmb * kiq))),
                    QDiv(Q(p * q), Q(kip * kmq)))
    IN  Rate(QDiv(num, den))

KineticConstants == 1..MaxConstant
Concentrations == 0..MaxConc

\* the arguments of a rate law; the constants not listed take the value of one that
\* is: kcat = kcatf = kcatr, kia = kma, kib = kmb, kmp = kip, kiq = kmq
RateLawCalls ==
    [kcat : KineticConstants, kma : KineticConstants, kmb : KineticConstants,
     kip : KineticConstants, kmq : KineticConstants, enz : 0..1,
     a : Concentrations, b : Concentrations, p : Concentrations, q : Concentrations]

InitEquations ==
    /\ ModelInit(0)
    /\ call \in RateLawCalls

RateLawCalled(name, rate) ==
    /\ lastOp = "__init__"
    /\ lastOp' = name
    /\ lastArg' = call
    /\ ret' = rate
    /\ UNCHANGED <<self, hist, call>>

Call_two_substrate_pingpong_irr ==
    RateLawCalled("two_substrate_pingpong_irr",
                  two_substrate_pingpong_irr(call.kcat, call.kma, call.kmb, call.enz,
                                             call.a, call.b))

Call_two_substrate_substituted_enzyme_rev ==
    RateLawCalled("two_substrate_substituted_enzyme_rev",
                  two_substrate_substituted_enzyme_rev(
                      call.kcat, call.kma, call.kmb, call.kma, call.kmb,
                      call.kcat, call.kip, call.kmq, call.kip, call.kmq,
                      call.enz, call.a, call.b, call.p, call.q))

NextEquations ==
    \/ Call_two_substrate_pingpong_irr
    \/ Call_two_substrate_substituted_enzyme_rev

SpecEquations == InitEquations /\ [][NextEquations]_vars

RateLaws == {"two_substrate_pingpong_irr", "two_substrate_substituted_enzyme_rev"}

====
